---------------------------- MODULE Spec2Model ----------------------------
(***************************************************************************)
(* A model of exa.core.container.Container: the attribute registry         *)
(* (_items), the introspection methods (info, memory_usage, _network),     *)
(* item deletion, and the HDF archive writer and reader (to_hdf,           *)
(* from_hdf).                                                              *)
(*                                                                         *)
(* A container is its instance dictionary vars(self): an insertion-ordered *)
(* sequence of (key, value) entries with pairwise distinct keys.           *)
(* Attribute names are sequences of tokens in which the character "_" is   *)
(* a token of its own, so that key.startswith("_") and key[1:] are         *)
(* computed on the name: "_meta" is <<"_", "meta">>.                       *)
(*                                                                         *)
(* The HDF file is one namespace of nodes under the root group (array      *)
(* nodes written by pytables, records written by pandas, each in fixed or  *)
(* in table format, with its leaves inside its group) plus the attribute   *)
(* set of the sentinel record.                                             *)
(*                                                                         *)
(* _items() is a generator: the call and each next are steps of their own, *)
(* and assignments and deletions may fall between them.                    *)
(*                                                                         *)
(* to_hdf closes a store on its last line only: a call that raises leaves  *)
(* the handle open, and pytables keeps it in its registry of open files,   *)
(* where it decides whether a later open of the path is allowed.           *)
(***************************************************************************)
EXTENDS Integers, Sequences, FiniteSets, TLC

VARIABLES obj,      \* vars(self) of the container under study
          file,     \* the HDF file at the path
          last,     \* the most recent operation and what it returned
          py,       \* the interpreter the program runs on
          it,       \* the generator a call of _items() has returned
          handles,  \* the store handles open on the path, oldest first
          shown     \* the warnings the interpreter has shown already

vars == <<obj, file, last, py, it, handles, shown>>

-----------------------------------------------------------------------------
(* Bounds of the model *)

\* longest content of a tabular record that append may build
MaxRows == 2

\* the positional arguments of one construction, and the draws of uuid4()
\* one construction makes
MaxArgs == 2

MaxDraws == 3

\* the pairs one generator of _items() is asked for
MaxYields == 4

\* the store handles that calls which raised have left open on the path
MaxLeaks == 2

-----------------------------------------------------------------------------
(* Names *)

Us == "_"

N_dp   == <<"default_prefix">>
N_meta == <<"meta">>
N_x    == <<"x">>
N_y    == <<"y">>
N_t    == <<Us, "t">>
N_values == <<"values">>
K_dp   == <<Us, "default_prefix">>
K_meta == <<Us, "meta">>

\* from .data import _spec_name: the sentinel record's name
\* ("__exa_storer__", as the docstring of to_hdf has it)
spec_name == <<Us, "_exa_storer__">>

\* from .data import _forbidden: attribute names of the sentinel record that
\* belong to the storage libraries and are not read back
N_pandas_type == <<"pandas_type">>
forbidden == {N_pandas_type, <<"CLASS">>, <<"TITLE">>, <<"VERSION">>}

\* the class attributes declared with Typed: each becomes a property of the
\* class whose storage is the "_"-prefixed instance attribute
Properties == {N_dp, N_meta}

\* Python's order on the strings the model uses, least first
NameOrder == << <<"CLASS">>, <<"TITLE">>, <<"VERSION">>, spec_name, K_dp,
                K_meta, N_t, <<"axis0">>, <<"axis1">>, <<"block0_items">>,
                <<"block0_values">>, N_dp, <<"index">>, N_meta, N_pandas_type,
                <<"table">>, N_values, N_x, N_y >>

NameRank(n) == CHOOSE i \in 1..Len(NameOrder) : NameOrder[i] = n

StrLess(a, b) == NameRank(a) < NameRank(b)

-----------------------------------------------------------------------------
(* Values *)

\* index and column labels are strings, kept as sequences of characters;
\* NoLabel is index.name of an unnamed index (None)
NoLabel == <<"<None>">>
L_a  == <<"a">>
L_a1 == <<"a", "1">>
L_b  == <<"b">>
L_c  == <<"c">>

\* sys.getsizeof is implementation-defined.  What it reports for an object
\* depends on the interpreter, on the object's content and on how the
\* object was built (a list keeps the slots it was allocated with), so each
\* value carries its byte count.  NominalBytes is the count CPython 3.11
\* gives an int between 1 and 2**30 - 1, an ASCII str, a list with no spare
\* slot, a dict of one str key and an instance of a plain class; for an
\* ndarray and a pandas object the count is the library's __sizeof__.
NominalBytes(cls, data) ==
    CASE cls = "NoneType" -> 16
      [] cls = "int"      -> 28
      [] cls = "str"      -> 49 + Len(data)
      [] cls = "list"     -> 56 + 8 * Len(data)
      [] cls = "dict"     -> 184
      [] cls = "ndarray"  -> 112 + 8 * Len(data)
      [] cls \in {"DataFrame", "Series"} -> 48
      [] OTHER            -> 56

Value(cls, data, idx, cols) ==
    [cls |-> cls, data |-> data, idx |-> idx, cols |-> cols,
     bytes |-> NominalBytes(cls, data)]

\* the same object with another byte count
Sized(v, b) == [v EXCEPT !.bytes = b]

\* the header of an ASCII str, by interpreter: the bytes of "obj_", the
\* default prefix __init__ makes, are the header and one per character
StrHeader ==
    [p37 |-> 49, p38 |-> 49, p39 |-> 49, p310 |-> 49, p311 |-> 49,
     p312 |-> 41, p313 |-> 41]

Interpreters == DOMAIN StrHeader

\* the byte counts seen for a list of three items (80 to 120, by interpreter
\* and by the way the list was built) and for an instance of a plain class
ListSizes == {80, 88, 120}

InstanceSizes == {48, 56, 64}

None    == Value("NoneType", <<>>, NoLabel, {})
Arr(c)  == Value("ndarray", <<c>>, NoLabel, {})
Frame(c, idx, cols) == Value("DataFrame", <<c>>, idx, cols)
Ser(c)  == Value("Series", <<c>>, NoLabel, {})
IntV(c) == Value("int", <<c>>, NoLabel, {})
ListV(s) == Value("list", s, NoLabel, {})
StrV(s) == Value("str", s, NoLabel, {})
DictV(c) == Value("dict", <<c>>, NoLabel, {})
\* user classes: a plain object, an object with a non-callable size
\* attribute and no shape, an object with a size() method
Widget  == Value("Widget", <<>>, NoLabel, {})
Gauge   == Value("Gauge", <<"7">>, NoLabel, {})
Grouper == Value("Grouper", <<"g">>, NoLabel, {})

EmptySeries == Value("Series", <<>>, NoLabel, {})

\* isinstance tests of to_hdf and _network
IsArray(v)   == v.cls = "ndarray"
IsTabular(v) == v.cls \in {"Series", "DataFrame", "SparseSeries", "SparseDataFrame"}
IsSpecial(v) == v.cls \in {"str", "int", "float", "complex", "dict", "list", "tuple"}
IsFrame(v)   == v.cls = "DataFrame"

\* hasattr(item, "shape"), hasattr(item, "size"), callable(item.size),
\* and whether len(item) is defined, by class
HasShape(v)     == v.cls \in {"ndarray", "DataFrame", "Series"}
HasSize(v)      == v.cls \in {"ndarray", "DataFrame", "Series", "Gauge", "Grouper"}
SizeCallable(v) == v.cls \in {"Grouper"}
HasLen(v)       == v.cls \in {"list", "str", "dict", "tuple", "ndarray",
                              "DataFrame", "Series"}

Digits == <<"0", "1", "2", "3", "4", "5", "6", "7", "8", "9">>

\* str(item.shape), str(item.size().to_dict()), str(len(item)), "nan"
ShapeOfShape(v) == <<"shape">> \o v.data
ShapeOfSize(v)  == <<"size">> \o v.data
ShapeOfLen(v)   == <<"len", Digits[Len(v.data) + 1]>>
ShapeNan        == <<"nan">>

\* sys.getsizeof(item): the bytes the interpreter reports for the object,
\* which the object has from its allocation on
getsizeof(v) == v.bytes

\* float(bytes)/(1024.0**2): a size in MiB, kept as the exact quotient
\* (the division by a power of two loses nothing in a float)
BytesPerMiB == 1048576

MiB(bytes) == [num |-> bytes, den |-> BytesPerMiB]

\* the sum of a column of sizes in MiB; 0 for an empty column
RECURSIVE SumMiB(_)
SumMiB(sizes) ==
    IF sizes = <<>> THEN MiB(0)
    ELSE MiB(Head(sizes).num + SumMiB(Tail(sizes)).num)

-----------------------------------------------------------------------------
(* The instance dictionary: an insertion-ordered sequence of entries *)

Entry(k, v) == [key |-> k, val |-> v]

KeysOf(d) == {d[i].key : i \in 1..Len(d)}

HasKey(d, k) == \E i \in 1..Len(d) : d[i].key = k

Get(d, k) == d[CHOOSE i \in 1..Len(d) : d[i].key = k].val

\* d[k] = v: an existing key keeps its place, a new one goes last
Put(d, k, v) ==
    IF HasKey(d, k)
    THEN LET i == CHOOSE j \in 1..Len(d) : d[j].key = k
         IN  SubSeq(d, 1, i - 1) \o <<Entry(k, v)>> \o SubSeq(d, i + 1, Len(d))
    ELSE Append(d, Entry(k, v))

\* del d[k]
Remove(d, k) == SelectSeq(d, LAMBDA e : e.key # k)

\* sorted(...) of a sequence of entries by key, as an insertion sort
RECURSIVE InsertSorted(_, _)
InsertSorted(s, e) ==
    IF s = <<>> THEN <<e>>
    ELSE IF StrLess(e.key, Head(s).key) THEN <<e>> \o s
    ELSE <<Head(s)>> \o InsertSorted(Tail(s), e)

RECURSIVE SortByKey(_)
SortByKey(s) ==
    IF s = <<>> THEN <<>>
    ELSE InsertSorted(SortByKey(SubSeq(s, 1, Len(s) - 1)), s[Len(s)])

-----------------------------------------------------------------------------
(* Typed attributes (exa.typed): property-backed storage *)

Storage(name) == <<Us>> \o name

\* setattr(self, name, value): a Typed name goes through the property's
\* setter, which stores under the "_"-prefixed key
SetAttr(d, name, v) ==
    IF name \in Properties THEN Put(d, Storage(name), v) ELSE Put(d, name, v)

\* hasattr(self, name): an instance attribute, or a property whose storage
\* exists
HasAttr(d, name) ==
    HasKey(d, name) \/ (name \in Properties /\ HasKey(d, Storage(name)))

\* getattr(self, name), where HasAttr(d, name)
GetAttr(d, name) ==
    IF name \in Properties THEN Get(d, Storage(name)) ELSE Get(d, name)

-----------------------------------------------------------------------------
(* Container._items, __init__, __delitem__ *)

\* the name _items reports for a stored key
PublicName(key) ==
    IF key # <<>> /\ Head(key) = Us /\ Tail(key) \in Properties
    THEN Tail(key)
    ELSE key

\* list(self._items()): one (name, data) pair per entry of vars(self), in
\* the dictionary's order
Items(d) == [i \in DOMAIN d |-> Entry(PublicName(d[i].key), d[i].val)]

\* The generator _items() returns.  st is "created" until the first next,
\* "running" between yields, "done" once the loop has ended and "error" once
\* it has raised; the loop `for key, data in dct.items()` starts at the
\* first next, and from then on the dictionary's iterator holds the size
\* the dictionary had (used) and its place in it (pos); dirty says that keys
\* were added or deleted since, touched that vars(self) was written at all
\* since; got is what the generator has yielded
NoGen ==
    [st |-> "none", pos |-> 0, used |-> 0, dirty |-> FALSE, touched |-> FALSE,
     got |-> <<>>]

\* self._items(): a generator object; none of the body has run
ItemsGen == [NoGen EXCEPT !.st = "created"]

KeySeq(d) == [i \in DOMAIN d |-> d[i].key]

\* what a write to vars(self), from d to d2, is to the generator: nothing
\* before the loop has started
Mutated(g, d, d2) ==
    IF g.st \in {"none", "created"} THEN g
    ELSE [g EXCEPT !.touched = @ \/ d # d2,
                   !.dirty = @ \/ KeySeq(d) # KeySeq(d2)]

GenResult(g, err, items) == [gen |-> g, err |-> err, items |-> items]

Yield(g, pair) ==
    GenResult([g EXCEPT !.pos = @ + 1, !.got = Append(@, pair)], "", <<pair>>)

\* next(generator) on the dictionary d: the outcomes.  A generator that has
\* ended or raised raises StopIteration.  A dictionary whose size is not
\* the size it had when the loop started raises RuntimeError.  Otherwise
\* the next entry is yielded with the value it has now, or the loop ends;
\* when keys were added and deleted and the size is the same, the language
\* does not say which entries are still visited: any entry may come, or the
\* end, or RuntimeError
NextOutcomes(g0, d) ==
    LET g == IF g0.st = "created"
             THEN [g0 EXCEPT !.st = "running", !.used = Len(d)]
             ELSE g0
        stop  == GenResult([g EXCEPT !.st = "done"], "StopIteration", <<>>)
        raise == GenResult([g EXCEPT !.st = "error"], "RuntimeError", <<>>)
    IN  IF g.st \in {"done", "error"}
        THEN {GenResult(g, "StopIteration", <<>>)}
        ELSE IF Len(d) # g.used THEN {raise}
        ELSE IF ~g.dirty
        THEN IF g.pos < Len(d) THEN {Yield(g, Items(d)[g.pos + 1])} ELSE {stop}
        ELSE {stop, raise} \cup {Yield(g, Items(d)[j]) : j \in 1..Len(d)}

\* the loop over **kwargs of __init__
RECURSIVE SetAll(_, _)
SetAll(d, kw) ==
    IF kw = <<>> THEN d
    ELSE SetAll(SetAttr(d, Head(kw).key, Head(kw).val), Tail(kw))

\* kwargs.pop(name, default) of __init__
Pop(kw, name, default) == IF HasKey(kw, name) THEN Get(kw, name) ELSE default

\* the loop over *args of __init__: each positional argument is stored
\* under default_prefix + uuid4().hex; auto is the sequence of hex strings
\* uuid4() returns, and a draw for which hasattr(self, name) holds is
\* dropped and the next one is tried
RECURSIVE SetArgs(_, _, _)
SetArgs(d, args, auto) ==
    IF args = <<>> \/ auto = <<>> THEN d
    ELSE LET name == GetAttr(d, N_dp).data \o <<Head(auto)>>
         IN  IF HasAttr(d, name)
             THEN SetArgs(d, args, Tail(auto))
             ELSE SetArgs(SetAttr(d, name, Head(args)), Tail(args), Tail(auto))

\* the draws of uuid4() left when the loop over *args has placed them all;
\* <<"short">> when the draws run out before that
RECURSIVE DrawsLeft(_, _, _)
DrawsLeft(d, args, auto) ==
    IF args = <<>> THEN auto
    ELSE IF auto = <<>> THEN <<"short">>
    ELSE LET name == GetAttr(d, N_dp).data \o <<Head(auto)>>
         IN  IF HasAttr(d, name)
             THEN DrawsLeft(d, args, Tail(auto))
             ELSE DrawsLeft(SetAttr(d, name, Head(args)), Tail(args), Tail(auto))

\* "obj_", the default of default_prefix
DefaultPrefix == <<"o", "b", "j", Us>>

\* Container(*args, **kwargs)
ContainerInit(args, auto, kwargs) ==
    LET d1 == SetAttr(<<>>, N_dp,
                      Pop(kwargs, N_dp,
                          Sized(StrV(DefaultPrefix),
                                StrHeader[py] + Len(DefaultPrefix))))
        d2 == SetAttr(d1, N_meta, Pop(kwargs, N_meta, None))
        d3 == SetArgs(d2, args, auto)
    IN  SetAll(d3, Remove(Remove(kwargs, N_dp), N_meta))

\* ContainerLen counting the data items only
ContainerLenDataOnly(d) ==
    Cardinality({i \in 1..Len(d) : d[i].key \notin {K_dp, K_meta}})

\* len(self): len(vars(self).keys())
ContainerLen(d) == Cardinality(KeysOf(d))

\* key in self: True when hasattr(self, key), None otherwise
Contains(d, key) == HasAttr(d, key)

\* not np.all(getattr(other, name) == data), for the kinds of value the
\* comparison is total on
ValuesDiffer(a, b) == Sized(a, 0) # Sized(b, 0)

\* the loop of __eq__: False at the first name other has with another
\* value, True when the loop ends
RECURSIVE EqLoop(_, _)
EqLoop(items, other) ==
    IF items = <<>> THEN TRUE
    ELSE IF Contains(other, Head(items).key)
            /\ ValuesDiffer(GetAttr(other, Head(items).key), Head(items).val)
         THEN FALSE
         ELSE EqLoop(Tail(items), other)

\* self == other
Eq(d, other) == EqLoop(Items(d), other)

\* del self[key]
DelItem(d, key) == IF HasKey(d, key) THEN Remove(d, key) ELSE d

-----------------------------------------------------------------------------
(* Container.info, memory_usage *)

Unbound == <<"unbound">>

\* the shape the body of info's loop leaves in the local variable, given
\* the value the previous iteration left there
ShapeStep(prev, item) ==
    IF HasShape(item) THEN ShapeOfShape(item)
    ELSE IF HasSize(item)
         THEN IF SizeCallable(item) THEN ShapeOfSize(item) ELSE prev
         ELSE IF HasLen(item) THEN ShapeOfLen(item) ELSE ShapeNan

Row(name, item, shape) ==
    [key |-> name, typ |-> item.cls, size |-> MiB(getsizeof(item)), shape |-> shape]

\* the loop of info: the rows appended so far and the local shape; reading
\* shape while it is unbound raises UnboundLocalError
RECURSIVE InfoLoop(_, _, _)
InfoLoop(items, rows, shape) ==
    IF items = <<>> THEN [err |-> "", rows |-> rows]
    ELSE LET sh == ShapeStep(shape, Head(items).val)
         IN  IF sh = Unbound
             THEN [err |-> "UnboundLocalError", rows |-> <<>>]
             ELSE InfoLoop(Tail(items),
                           Append(rows, Row(Head(items).key, Head(items).val, sh)),
                           sh)

\* info(): the rows, sorted by attribute name
Info(d) ==
    LET r == InfoLoop(Items(d), <<>>, Unbound)
    IN  [err |-> r.err, rows |-> SortByKey(r.rows)]

\* info()['size (MiB)'].sum()
SumSize(rows) == SumMiB([i \in DOMAIN rows |-> rows[i].size])

\* memory_usage(): self.info()['size (MiB)'].sum()
MemoryUsage(d) ==
    LET i == Info(d)
    IN  [err |-> i.err, mem |-> IF i.err = "" THEN SumSize(i.rows) ELSE MiB(0)]

-----------------------------------------------------------------------------
(* Container._network *)

\* nodes[name] = (item.index.name, item.columns.values), for the DataFrames
NetNodes(d) == SelectSeq(Items(d), LAMBDA e : IsFrame(e.val))

\* col == name, or name == col[:-1] and col[-1].isdigit()
SuffixEq(col, name) ==
    \/ col = name
    \/ (col # <<>> /\ SubSeq(col, 1, Len(col) - 1) = name
                   /\ col[Len(col)] \in {Digits[i] : i \in 1..Len(Digits)})

\* Related with the numeral-suffixed match of the earlier network()
RelatedBySuffix(n0, n1) ==
    \/ (n0.val.idx # NoLabel /\ \E col \in n1.val.cols : SuffixEq(col, n0.val.idx))
    \/ (n1.val.idx # NoLabel /\ \E col \in n0.val.cols : SuffixEq(col, n1.val.idx))

\* the test of the inner loop's body on two nodes
Related(n0, n1) ==
    \/ (n0.val.idx # NoLabel /\ \E col \in n1.val.cols : col = n0.val.idx)
    \/ (n1.val.idx # NoLabel /\ \E col \in n0.val.cols : col = n1.val.idx)

\* sorted((key0, key1))
SortedPair(k0, k1) == IF StrLess(k1, k0) THEN <<k1, k0>> ELSE <<k0, k1>>

InSeq(s, e) == \E i \in 1..Len(s) : s[i] = e

\* EdgeStep without the test pair not in edges
EdgeStepNoDedup(edges, n0, n1) ==
    IF n0.key = n1.key THEN edges
    ELSE IF Related(n0, n1)
         THEN Append(edges, SortedPair(n0.key, n1.key))
         ELSE edges

\* the body of the inner loop
EdgeStep(edges, n0, n1) ==
    IF n0.key = n1.key THEN edges
    ELSE IF Related(n0, n1)
         THEN LET pair == SortedPair(n0.key, n1.key)
              IN  IF ~InSeq(edges, pair) THEN Append(edges, pair) ELSE edges
         ELSE edges

\* the two nested loops over nodes.items(): i and j are the positions of
\* the outer and the inner loop
RECURSIVE EdgeLoop(_, _, _, _)
EdgeLoop(nodes, i, j, edges) ==
    IF i > Len(nodes) THEN edges
    ELSE IF j > Len(nodes) THEN EdgeLoop(nodes, i + 1, 1, edges)
    ELSE EdgeLoop(nodes, i, j + 1, EdgeStep(edges, nodes[i], nodes[j]))

\* Python's order on pairs of names
PairLess(p, q) ==
    StrLess(p[1], q[1]) \/ (p[1] = q[1] /\ StrLess(p[2], q[2]))

RECURSIVE InsertPair(_, _)
InsertPair(s, p) ==
    IF s = <<>> THEN <<p>>
    ELSE IF PairLess(p, Head(s)) THEN <<p>> \o s
    ELSE <<Head(s)>> \o InsertPair(Tail(s), p)

RECURSIVE SortPairs(_)
SortPairs(s) ==
    IF s = <<>> THEN <<>>
    ELSE InsertPair(SortPairs(SubSeq(s, 1, Len(s) - 1)), s[Len(s)])

\* _network(): (sorted(nodes.keys()), sorted(edges))
Network(d) ==
    LET nodes == NetNodes(d)
        names == SortByKey(nodes)
    IN  [nodes |-> [i \in DOMAIN names |-> names[i].key],
         edges |-> SortPairs(EdgeLoop(nodes, 1, 1, <<>>))]

-----------------------------------------------------------------------------
(* The HDF file and the two stores opened on it *)

\* nodes are the children of the root group, attrs the attributes of the
\* sentinel's group, tables the names of the records in table format (a
\* record that is not among them is in fixed format); pads holds, for a
\* record put without rows, the element of the array numpy.empty((1,)) that
\* pandas stored in the place of its values
NoFile ==
    [exists |-> FALSE, nodes |-> <<>>, attrs |-> <<>>, tables |-> {},
     pads |-> <<>>]

EmptyFile ==
    [exists |-> TRUE, nodes |-> <<>>, attrs |-> <<>>, tables |-> {},
     pads |-> <<>>]

\* the children of a group and the attributes of a node are kept by name
PutSorted(d, k, v) ==
    IF HasKey(d, k) THEN Put(d, k, v) ELSE InsertSorted(d, Entry(k, v))

\* a store handle: which library opened it, and in which mode
S_tables == "tables.File"
S_pandas == "pd.HDFStore"

Handle(store, mode) == [store |-> store, mode |-> mode]

\* pytables' test of a new open against the handles its registry has for
\* the path: "r" goes with handles in mode "r" only, "a" and "r+" with any
\* handle that is not in mode "r", "w" with none
Refused(mode, hs) ==
    \E i \in 1..Len(hs) :
        \/ mode = "w"
        \/ (mode = "r" /\ hs[i].mode # "r")
        \/ (mode \in {"a", "r+"} /\ hs[i].mode = "r")

\* tables.open_file(path, mode=mode) and pd.HDFStore(path, mode=mode), which
\* opens through tables.open_file: an open the registry refuses raises
\* ValueError; "w" starts an empty file, "a" creates the file if there is
\* none, "r+" and "r" need the file
OpenStore(f, mode, hs) ==
    IF Refused(mode, hs) THEN [err |-> "ValueError", file |-> f]
    ELSE IF mode = "w" THEN [err |-> "", file |-> EmptyFile]
    ELSE IF f.exists THEN [err |-> "", file |-> f]
    ELSE IF mode = "a" THEN [err |-> "", file |-> EmptyFile]
    ELSE [err |-> "IOError", file |-> f]

\* the stores of one call: the events so far, and the handles open
E_open_tables  == "tables.open_file"
E_close_tables == "tables.close"
E_open_pandas  == "HDFStore.open"
E_close_pandas == "HDFStore.close"

Session(hs) == [events |-> <<>>, handles |-> hs]

\* the handles without the one opened last among those equal to h
RECURSIVE RemoveLast(_, _)
RemoveLast(hs, h) ==
    IF hs = <<>> THEN <<>>
    ELSE IF hs[Len(hs)] = h THEN SubSeq(hs, 1, Len(hs) - 1)
    ELSE Append(RemoveLast(SubSeq(hs, 1, Len(hs) - 1), h), hs[Len(hs)])

\* a store was opened, a store was closed
Opened(s, event, h) ==
    [events |-> Append(s.events, event), handles |-> Append(s.handles, h)]

Closed(s, event, h) ==
    [events |-> Append(s.events, event), handles |-> RemoveLast(s.handles, h)]

\* the first pass of to_hdf: which dictionary an item goes to
Lane(v) ==
    IF IsArray(v) THEN "numpy"
    ELSE IF IsTabular(v) THEN "pandas"
    ELSE IF IsSpecial(v) THEN "special"
    ELSE IF v # None THEN "unsupported"
    ELSE "none"

\* numpy_save, pandas_save, special_save: the items of one lane
RECURSIVE Collect(_, _, _)
Collect(items, lane, acc) ==
    IF items = <<>> THEN acc
    ELSE Collect(Tail(items), lane,
                 IF Lane(Head(items).val) = lane
                 THEN Put(acc, Head(items).key, Head(items).val)
                 ELSE acc)

\* the text of a warning: "Data object '{}' ({}) not saved (unsupported)."
\* with the item's name and type
Text(name, v) == [name |-> name, cls |-> v.cls]

\* the calls of warnings.warn in the first pass, in order
RECURSIVE WarnTexts(_, _)
WarnTexts(items, warn) ==
    IF items = <<>> THEN <<>>
    ELSE (IF Lane(Head(items).val) = "unsupported" /\ warn = TRUE
          THEN <<Text(Head(items).key, Head(items).val)>> ELSE <<>>)
         \o WarnTexts(Tail(items), warn)

\* Warnings with a warning for an item that is None too
RECURSIVE WarningsCountsNone(_, _)
WarningsCountsNone(items, warn) ==
    IF items = <<>> THEN 0
    ELSE (IF Lane(Head(items).val) \in {"unsupported", "none"} /\ warn = TRUE
          THEN 1 ELSE 0)
         + WarningsCountsNone(Tail(items), warn)

\* how many times the first pass calls warnings.warn
Warnings(items, warn) == Len(WarnTexts(items, warn))

\* what the interpreter does with the calls under its default filter: a
\* text is shown the first time line 133 warns it and is entered in the
\* registry (__warningregistry__ of the module), and not shown again
RECURSIVE Show(_, _)
Show(reg, texts) ==
    IF texts = <<>> THEN [shown |-> <<>>, registry |-> reg]
    ELSE LET rest == Show(reg \cup {Head(texts)}, Tail(texts))
         IN  [shown |-> (IF Head(texts) \in reg THEN <<>> ELSE <<Head(texts)>>)
                        \o rest.shown,
              registry |-> rest.registry]

\* CreateArrays replacing the node of a name the root group already has
RECURSIVE CreateArraysOverwrites(_, _)
CreateArraysOverwrites(f, save) ==
    IF save = <<>> THEN [err |-> "", file |-> f]
    ELSE CreateArraysOverwrites(
             [f EXCEPT !.nodes = PutSorted(@, Head(save).key, Head(save).val)],
             Tail(save))

\* the loop store.create_carray("/", name, obj=data): a name the root
\* group already has raises NodeError, and the loop stops there
RECURSIVE CreateArrays(_, _)
CreateArrays(f, save) ==
    IF save = <<>> THEN [err |-> "", file |-> f]
    ELSE IF HasKey(f.nodes, Head(save).key)
         THEN [err |-> "NodeError", file |-> f]
         ELSE CreateArrays([f EXCEPT !.nodes =
                                PutSorted(@, Head(save).key, Head(save).val)],
                           Tail(save))

\* if _spec_name not in store: store.put(_spec_name, pd.Series()); junk is
\* what numpy.empty leaves in the arrays this call stores
EnsureSentinel(f, junk) ==
    IF HasKey(f.nodes, spec_name) THEN f
    ELSE [f EXCEPT !.nodes = PutSorted(@, spec_name, EmptySeries),
                   !.tables = @ \ {spec_name},
                   !.pads = Put(@, spec_name, junk[spec_name]),
                   !.attrs = <<Entry(N_pandas_type, StrV(<<"s", "e", "r", "i", "e", "s">>))>>]

\* the loop special[name] = data
RECURSIVE SetSpecials(_, _)
SetSpecials(attrs, save) ==
    IF save = <<>> THEN attrs
    ELSE SetSpecials(PutSorted(attrs, Head(save).key, Head(save).val), Tail(save))

\* the append argument of to_hdf: None, True, a name, or a list of names
AppendNone       == [kind |-> "None", names |-> {}]
AppendTrue       == [kind |-> "True", names |-> {}]
AppendName(n)    == [kind |-> "str", names |-> {n}]
AppendList(ns)   == [kind |-> "list", names |-> ns]
AppendTuple(ns)  == [kind |-> "tuple", names |-> ns]

\* AppendDecision without the test of the name against a list or a tuple
AppendDecisionFlagOnly(append, name) ==
    \/ append.kind = "True"
    \/ (append.kind = "str" /\ append.names = {name})

\* the test that chooses data.to_hdf(..., append=True, ...)
AppendDecision(append, name) ==
    \/ (append.kind \in {"list", "tuple"} /\ name \in append.names)
    \/ append.kind = "True"
    \/ (append.kind = "str" /\ append.names = {name})

\* data.to_hdf(store, name, close=False): put replaces the node of that
\* name by a record in fixed format
PutRecord(f, name, data, junk) ==
    [err |-> "",
     file |-> [f EXCEPT !.nodes = PutSorted(@, name, data),
                        !.tables = @ \ {name},
                        !.pads = IF data.data = <<>>
                                 THEN Put(@, name, junk[name])
                                 ELSE Remove(@, name)]]

\* data.to_hdf(store, name, append=True, close=False): nothing is written
\* for data without rows; a new record is made in table format; the rows
\* go after the rows of a record in table format; a record in fixed format
\* raises ValueError ("Can only append to Tables"), and so do rows that do
\* not have the columns of the table; on an array node the call raises
\* while it builds the table (E_append_leaf)
E_append_leaf == "Exception"

AppendRecord(f, name, data) ==
    IF data.data = <<>> THEN [err |-> "", file |-> f]
    ELSE IF ~HasKey(f.nodes, name)
    THEN [err |-> "",
          file |-> [f EXCEPT !.nodes = PutSorted(@, name, data),
                             !.tables = @ \cup {name}]]
    ELSE IF ~IsTabular(Get(f.nodes, name))
    THEN [err |-> E_append_leaf, file |-> f]
    ELSE IF name \notin f.tables
            \/ Get(f.nodes, name).cols # data.cols
            \/ Get(f.nodes, name).cls # data.cls
    THEN [err |-> "ValueError", file |-> f]
    ELSE [err |-> "",
          file |-> [f EXCEPT !.nodes = PutSorted(@, name,
                        [Get(f.nodes, name) EXCEPT !.data = @ \o data.data])]]

\* the loop over pandas_save: the first call that raises ends it
RECURSIVE WriteTabular(_, _, _, _)
WriteTabular(f, save, append, junk) ==
    IF save = <<>> THEN [err |-> "", file |-> f]
    ELSE LET name == Head(save).key
             data == Head(save).val
             w    == IF AppendDecision(append, name)
                     THEN AppendRecord(f, name, data)
                     ELSE PutRecord(f, name, data, junk)
         IN  IF w.err # "" THEN w
             ELSE WriteTabular(w.file, Tail(save), append, junk)

\* what a to_hdf call returns or raises, and what it leaves behind
ToHdfResult(f, err, calls, w, s, np, pd, sp) ==
    [file |-> f, err |-> err, warnings |-> calls, shown |-> w.shown,
     registry |-> w.registry, events |-> s.events, handles |-> s.handles,
     numpy |-> np, pandas |-> pd, special |-> sp]

\* ToHdfTabularPhase without the final store.close()
ToHdfTabularPhaseNoClose(f0, s0, mode, append, junk, calls, w, np, pd, sp) ==
    LET h == Handle(S_pandas, mode)
        o == OpenStore(f0, mode, s0.handles)
    IN  IF o.err # "" THEN ToHdfResult(f0, o.err, calls, w, s0, np, pd, sp)
        ELSE LET s1 == Opened(s0, E_open_pandas, h)
                 f1 == EnsureSentinel(o.file, junk)
                 f2 == [f1 EXCEPT !.attrs = SetSpecials(@, sp)]
                 t  == WriteTabular(f2, pd, append, junk)
             IN  ToHdfResult(t.file, t.err, calls, w, s1, np, pd, sp)

\* the second half of to_hdf: pd.HDFStore(...) to store.close()
ToHdfTabularPhase(f0, s0, mode, append, junk, calls, w, np, pd, sp) ==
    LET h == Handle(S_pandas, mode)
        o == OpenStore(f0, mode, s0.handles)
    IN  IF o.err # "" THEN ToHdfResult(f0, o.err, calls, w, s0, np, pd, sp)
        ELSE LET s1 == Opened(s0, E_open_pandas, h)
                 f1 == EnsureSentinel(o.file, junk)
                 f2 == [f1 EXCEPT !.attrs = SetSpecials(@, sp)]
                 t  == WriteTabular(f2, pd, append, junk)
             IN  IF t.err # ""
                 THEN ToHdfResult(t.file, t.err, calls, w, s1, np, pd, sp)
                 ELSE ToHdfResult(t.file, "", calls, w,
                                  Closed(s1, E_close_pandas, h), np, pd, sp)

\* to_hdf(path, mode, append, sparse, warn=warn) on the file f, with the
\* handles hs open on the path and the warnings of reg shown already
ToHdf(d, f, hs, reg, mode, append, sparse, warn, junk) ==
    LET items == Items(d)
        np    == Collect(items, "numpy", <<>>)
        pd    == Collect(items, "pandas", <<>>)
        sp    == Collect(items, "special", <<>>)
        calls == Warnings(items, warn)
        w     == Show(reg, WarnTexts(items, warn))
        s0    == Session(hs)
        h     == Handle(S_tables, mode)
    IN  IF Len(np) > 0
        THEN LET o == OpenStore(f, mode, hs)
             IN  IF o.err # ""
                 THEN ToHdfResult(f, o.err, calls, w, s0, np, pd, sp)
                 ELSE LET s1 == Opened(s0, E_open_tables, h)
                          c  == CreateArrays(o.file, np)
                      IN  IF c.err # ""
                          THEN ToHdfResult(c.file, c.err, calls, w, s1, np, pd, sp)
                          ELSE ToHdfTabularPhase(c.file,
                                   Closed(s1, E_close_tables, h), mode, append,
                                   junk, calls, w, np, pd, sp)
        ELSE ToHdfTabularPhase(f, s0, mode, append, junk, calls, w, np, pd, sp)

-----------------------------------------------------------------------------
(* from_hdf *)

\* the loop over vars(store.get_storer(_spec_name).attrs).items()
RECURSIVE ReadAttrs(_, _)
ReadAttrs(attrs, kwargs) ==
    IF attrs = <<>> THEN kwargs
    ELSE ReadAttrs(Tail(attrs),
                   IF Head(attrs).key \in forbidden THEN kwargs
                   ELSE Put(kwargs, Head(attrs).key, Head(attrs).val))

\* what HDFStore.items() yields for a record: the path of its group, and
\* the group node itself, not the Series or DataFrame stored in it
Path(name) == <<"/">> \o name

GroupNode(v) == [v EXCEPT !.cls = "Group"]

\* the loop over store.items(): kwargs[name] = data for the records of the
\* tabular store, the sentinel among them
RECURSIVE ReadRecords(_, _)
ReadRecords(nodes, kwargs) ==
    IF nodes = <<>> THEN kwargs
    ELSE ReadRecords(Tail(nodes),
                     IF IsTabular(Head(nodes).val)
                     THEN Put(kwargs, Path(Head(nodes).key),
                              GroupNode(Head(nodes).val))
                     ELSE kwargs)

\* the leaves pandas keeps in the group of a record, by name: table for a
\* record in table format; index and values for a Series in fixed format;
\* axis0, axis1, block0_items and block0_values for a DataFrame (of one
\* block) in fixed format
LeafNames(rec, isTable) ==
    IF isTable THEN << <<"table">> >>
    ELSE IF rec.cls = "Series" THEN << <<"index">>, N_values >>
    ELSE << <<"axis0">>, <<"axis1">>, <<"block0_items">>, <<"block0_values">> >>

\* what data.read() gives for a leaf of a record: the rows for table, values
\* and block0_values; the row labels 0, 1, ... for index and axis1; the
\* column labels (kept in cols) for axis0 and block0_items.  For a record
\* without rows the leaf of the values is the array numpy.empty((1,)) that
\* pandas stored, whose one element, pad, was never initialised, and the
\* leaf of the row labels, kept as objects, reads as a list of one empty
\* array
Leaf(rec, leaf, pad) ==
    IF leaf \in {<<"table">>, N_values, <<"block0_values">>}
    THEN Value("ndarray", IF rec.data = <<>> THEN <<pad>> ELSE rec.data,
               NoLabel, {})
    ELSE IF leaf \in {<<"index">>, <<"axis1">>}
    THEN IF rec.data = <<>>
         THEN Value("list", <<"array([])">>, NoLabel, {})
         ELSE Value("ndarray", [i \in 1..Len(rec.data) |-> Digits[i]],
                    NoLabel, {})
    ELSE Value("ndarray", <<>>, NoLabel, rec.cols)

\* the leaves of the record e of the file
LeavesOf(f, e) ==
    LET names == LeafNames(e.val, e.key \in f.tables)
        pad   == IF HasKey(f.pads, e.key) THEN Get(f.pads, e.key) ELSE ""
    IN  [i \in DOMAIN names |-> Entry(names[i], Leaf(e.val, names[i], pad))]

RECURSIVE Flatten(_)
Flatten(ss) == IF ss = <<>> THEN <<>> ELSE Head(ss) \o Flatten(Tail(ss))

\* store.walk_nodes(): the root group, then the children of the root by
\* name (an array node, or the group of a record), then, group by group in
\* the order of their names, the leaves of each record
WalkNodes(f) ==
    LET groups == SelectSeq(f.nodes, LAMBDA e : IsTabular(e.val))
    IN  <<Entry(<<"/">>, GroupNode(EmptySeries))>>
        \o [i \in DOMAIN f.nodes |->
               IF IsTabular(f.nodes[i].val)
               THEN Entry(f.nodes[i].key, GroupNode(f.nodes[i].val))
               ELSE f.nodes[i]]
        \o Flatten([i \in DOMAIN groups |-> LeavesOf(f, groups[i])])

\* hasattr(data, "name"): a leaf has the attribute, a group does not
HasName(v) == v.cls # "Group"

\* the loop over store.walk_nodes(): a node that has the attribute name is
\* read unless the map has its name; a group is passed over
RECURSIVE ReadNodes(_, _)
ReadNodes(nodes, kwargs) ==
    IF nodes = <<>> THEN kwargs
    ELSE ReadNodes(Tail(nodes),
                   IF HasName(Head(nodes).val) /\ ~HasKey(kwargs, Head(nodes).key)
                   THEN Put(kwargs, Head(nodes).key, Head(nodes).val)
                   ELSE kwargs)

\* the keyword map from_hdf builds
FromHdfKwargs(f) ==
    LET k1 == IF HasKey(f.nodes, spec_name) THEN ReadAttrs(f.attrs, <<>>) ELSE <<>>
        k2 == ReadRecords(f.nodes, k1)
    IN  ReadNodes(WalkNodes(f), k2)

\* from_hdf(path), with the handles hs open on the path: the keyword map
\* and cls(**kwargs); both stores are opened in mode "r"
FromHdf(f, hs) ==
    LET o  == OpenStore(f, "r", hs)
        hp == Handle(S_pandas, "r")
        ht == Handle(S_tables, "r")
    IN  IF o.err # ""
        THEN [err |-> o.err, kwargs |-> <<>>, result |-> <<>>,
              events |-> <<>>, handles |-> hs]
        ELSE LET kw == FromHdfKwargs(f)
                 s1 == Closed(Opened(Session(hs), E_open_pandas, hp),
                              E_close_pandas, hp)
                 s2 == Closed(Opened(s1, E_open_tables, ht), E_close_tables, ht)
             IN  [err |-> "", kwargs |-> kw,
                  result |-> ContainerInit(<<>>, <<>>, kw),
                  events |-> s2.events, handles |-> s2.handles]

-----------------------------------------------------------------------------
(* Inputs *)

Pairs(names, vals) == {Entry(n, v) : n \in names, v \in vals}

\* keyword maps of at most two items with distinct names
KwargsOf(inputs) ==
    {<<>>} \cup {<<p>> : p \in inputs}
           \cup {s \in {<<p, q>> : p \in inputs, q \in inputs} : s[1].key # s[2].key}

\* what the archive specification attaches to a container
ArchInputs ==
    Pairs({N_x}, {Arr("u"), Frame("u", L_a, {L_b}), IntV("u")})
    \cup Pairs({N_values}, {Widget})
    \cup Pairs({N_meta}, {DictV("m")})

ArchKeys == {N_x, N_values}

\* what the specification of the two stores attaches: a table or an array
\* under each of two names, one of them the name of a leaf of the sentinel
StoreInputs ==
    Pairs({N_x, N_values}, {Frame("u", L_a, {L_b}), Arr("u")})

StoreKeys == {N_x}

\* what numpy.empty may have left in the element it does not initialise,
\* for each record a call puts without rows: the sentinel (the items the
\* specifications attach all have rows)
Junk == {"0", "9"}

PadNames == {spec_name}

Pads == [PadNames -> Junk]

Modes == {"a", "w", "r+"}

Appends == {AppendNone, AppendTrue, AppendName(N_x),
            AppendList({N_x}), AppendTuple({N_x})}

\* the options of a to_hdf call; sparse is in hundredths
Call(mode, append, warn, sparse) ==
    [mode |-> mode, append |-> append, warn |-> warn, sparse |-> sparse]

\* the calls of the archive specification: every mode with the other
\* options at their defaults, and warn=False
Calls ==
    {Call(m, AppendNone, TRUE, 95) : m \in Modes}
    \cup {Call("a", AppendNone, FALSE, 95)}

\* the calls of the specification of the two stores: every append in the
\* default mode, and append=True in mode "w"
StoreCalls ==
    {Call("a", a, TRUE, 95) : a \in Appends}
    \cup {Call("w", AppendTrue, TRUE, 95)}

\* what the introspection specification attaches to a container
ViewInputs ==
    Pairs({N_x}, {Frame("u", L_a, {L_a1}), Frame("u", L_a, {L_c})}
                 \cup {Sized(ListV(<<"1", "2", "3">>), b) : b \in ListSizes}
                 \cup {Sized(Gauge, b) : b \in InstanceSizes})
    \cup Pairs({N_y}, {Frame("u", L_a, {L_c}), Frame("u", NoLabel, {L_a}),
                       Grouper, IntV("u")})
    \cup Pairs({N_t}, {Frame("u", L_c, {L_a}), Gauge})

ViewKeys == {N_x, N_y, N_t, N_meta, K_meta, K_dp}

\* what is assigned to and deleted from a container while a generator of
\* _items() is read
IterInputs ==
    Pairs({N_x}, {IntV("u"), IntV("v")}) \cup Pairs({N_t}, {IntV("u")})

IterKeys == {N_x, N_t, K_meta}

\* what the construction specification passes to Container(*args, **kwargs):
\* the hex strings uuid4() may return, the positional arguments, and the
\* keyword arguments, one of them named as a generated name is
Hexes == {"h1", "h2"}

N_gen == DefaultPrefix \o <<"h1">>

SeqsUpTo(S, n) == UNION {[1..k -> S] : k \in 0..n}

NewArgs == SeqsUpTo({IntV("u"), IntV("v")}, MaxArgs)

NewDraws == SeqsUpTo(Hexes, MaxDraws)

NewInputs ==
    Pairs({N_x, N_gen}, {IntV("w")})
    \cup Pairs({N_dp}, {StrV(<<"p">>)})
    \cup Pairs({N_meta}, {DictV("m")})

-----------------------------------------------------------------------------
(* State and actions *)

Blank ==
    [op |-> "none", err |-> "", key |-> <<>>, n |-> 0,
     items |-> <<>>, rows |-> <<>>, mem |-> MiB(0), nodes |-> <<>>, edges |-> <<>>,
     mode |-> "", append |-> AppendNone, warn |-> TRUE, fresh |-> FALSE,
     warnings |-> 0, events |-> <<>>, numpy |-> {}, pandas |-> {},
     special |-> {}, kwargs |-> <<>>, result |-> <<>>, sparse |-> 0,
     shown |-> <<>>,
     args |-> <<>>, auto |-> <<>>, eq |-> FALSE]

\* the state after Container(**kwargs)
InitWith(inputs, interpreters) ==
    /\ py \in interpreters
    /\ \E kw \in KwargsOf(inputs) :
          /\ obj = ContainerInit(<<>>, <<>>, kw)
          /\ last = [Blank EXCEPT !.op = "init", !.kwargs = kw,
                                  !.n = Len(Remove(Remove(kw, N_dp), N_meta))]
    /\ file = NoFile
    /\ it = NoGen
    /\ handles = <<>>
    /\ shown = {}

IsReserved(e) == e.key \in Properties

\* Container(*args, **kwargs), with the draws of uuid4() the call makes
Construct ==
    \E args \in NewArgs, auto \in NewDraws, kw \in KwargsOf(NewInputs) :
        /\ DrawsLeft(ContainerInit(<<>>, <<>>, SelectSeq(kw, IsReserved)),
                     args, auto) = <<>>
        /\ obj' = ContainerInit(args, auto, kw)
        /\ last' = [Blank EXCEPT !.op = "init", !.kwargs = kw, !.args = args,
                                 !.auto = auto,
                                 !.n = Len(Remove(Remove(kw, N_dp), N_meta))]
        /\ UNCHANGED <<file, py, it, handles, shown>>

\* container == Container(**kw)
EqAct ==
    \E kw \in KwargsOf(NewInputs) :
        \E other \in {ContainerInit(<<>>, <<>>, kw)} :
            /\ last' = [Blank EXCEPT !.op = "eq", !.result = other,
                                     !.eq = Eq(obj, other)]
            /\ UNCHANGED <<obj, file, py, it, handles, shown>>

\* setattr(container, name, value)
SetItem(inputs) ==
    \E p \in inputs :
        /\ obj' = SetAttr(obj, p.key, p.val)
        /\ it' = Mutated(it, obj, SetAttr(obj, p.key, p.val))
        /\ last' = [Blank EXCEPT !.op = "setattr", !.key = p.key]
        /\ UNCHANGED <<file, py, handles, shown>>

\* del container[key]
DelItemAct(keys) ==
    \E k \in keys :
        /\ obj' = DelItem(obj, k)
        /\ it' = Mutated(it, obj, DelItem(obj, k))
        /\ last' = [Blank EXCEPT !.op = "delitem", !.key = k]
        /\ UNCHANGED <<file, py, handles, shown>>

\* it = container._items(): the call makes the generator and runs none
\* of the body
ItemsCall ==
    /\ it' = ItemsGen
    /\ last' = [Blank EXCEPT !.op = "items"]
    /\ UNCHANGED <<obj, file, py, handles, shown>>

\* next(it): the body runs to its next yield, or to its end
ItemsNext ==
    /\ it.st # "none"
    /\ \E r \in NextOutcomes(it, obj) :
          /\ Len(r.gen.got) <= MaxYields
          /\ it' = r.gen
          /\ last' = [Blank EXCEPT !.op = "next", !.err = r.err,
                                   !.items = r.items]
    /\ UNCHANGED <<obj, file, py, handles, shown>>

\* len(container)
LenAct ==
    /\ last' = [Blank EXCEPT !.op = "len", !.n = ContainerLen(obj)]
    /\ UNCHANGED <<obj, file, py, it, handles, shown>>

\* container.info()
InfoAct ==
    /\ LET r == Info(obj)
       IN  last' = [Blank EXCEPT !.op = "info", !.err = r.err, !.rows = r.rows]
    /\ UNCHANGED <<obj, file, py, it, handles, shown>>

\* container.memory_usage()
MemoryUsageAct ==
    /\ LET r == MemoryUsage(obj)
       IN  last' = [Blank EXCEPT !.op = "memory_usage", !.err = r.err, !.mem = r.mem]
    /\ UNCHANGED <<obj, file, py, it, handles, shown>>

\* container._network()
NetworkAct ==
    /\ LET r == Network(obj)
       IN  last' = [Blank EXCEPT !.op = "network", !.nodes = r.nodes,
                                 !.edges = r.edges]
    /\ UNCHANGED <<obj, file, py, it, handles, shown>>

RowsWithin(f) == \A i \in 1..Len(f.nodes) : Len(f.nodes[i].val.data) <= MaxRows

\* container.to_hdf(path, mode=mode, append=append, sparse=sparse, warn=warn)
ToHdfAct(calls) ==
    \E c \in calls, junk \in Pads :
        \E r \in {ToHdf(obj, file, handles, shown, c.mode, c.append, c.sparse,
                         c.warn, junk)} :
            /\ RowsWithin(r.file)
            /\ Len(r.handles) <= MaxLeaks
            /\ file' = r.file
            /\ handles' = r.handles
            /\ shown' = r.registry
            /\ last' = [Blank EXCEPT !.op = "to_hdf", !.err = r.err,
                                     !.mode = c.mode, !.append = c.append,
                                     !.warn = c.warn, !.sparse = c.sparse,
                                     !.fresh = ~file.exists,
                                     !.warnings = r.warnings, !.shown = r.shown,
                                     !.events = r.events,
                                     !.numpy = KeysOf(r.numpy),
                                     !.pandas = KeysOf(r.pandas),
                                     !.special = KeysOf(r.special)]
            /\ UNCHANGED <<obj, py, it>>

\* Container.from_hdf(path)
FromHdfAct ==
    /\ \E r \in {FromHdf(file, handles)} :
          /\ handles' = r.handles
          /\ last' = [Blank EXCEPT !.op = "from_hdf", !.err = r.err,
                                   !.kwargs = r.kwargs, !.result = r.result,
                                   !.events = r.events]
    /\ UNCHANGED <<obj, file, py, it, shown>>

\* the archive: containers written to and read from one path
\* (to_hdf and from_hdf take no size: one interpreter)
Init == InitWith(ArchInputs, {"p311"})

Next ==
    \/ SetItem(ArchInputs)
    \/ DelItemAct(ArchKeys)
    \/ ToHdfAct(Calls)
    \/ FromHdfAct

Spec == Init /\ [][Next]_vars

\* the two stores: arrays and tables written with every value of append
InitStores == InitWith(StoreInputs, {"p311"})

NextStores ==
    \/ SetItem(StoreInputs)
    \/ DelItemAct(StoreKeys)
    \/ ToHdfAct(StoreCalls)
    \/ FromHdfAct

SpecStores == InitStores /\ [][NextStores]_vars

\* the registry and the introspection methods of one container
InitView == InitWith(ViewInputs, {"p311", "p312"})

NextView ==
    \/ SetItem(ViewInputs)
    \/ DelItemAct(ViewKeys)
    \/ LenAct
    \/ InfoAct
    \/ MemoryUsageAct
    \/ NetworkAct

SpecView == InitView /\ [][NextView]_vars

\* constructions of containers from positional and keyword arguments
\* (__init__, _items, __len__ and __eq__ take no size: one interpreter)
InitNew == InitWith({}, {"p311"})

NextNew ==
    \/ Construct
    \/ LenAct
    \/ EqAct

SpecNew == InitNew /\ [][NextNew]_vars

\* one container and one generator of _items(), with assignments and
\* deletions between the calls of next
InitIter == InitWith(IterInputs, {"p311"})

NextIter ==
    \/ SetItem(IterInputs)
    \/ DelItemAct(IterKeys)
    \/ ItemsCall
    \/ ItemsNext

SpecIter == InitIter /\ [][NextIter]_vars

-----------------------------------------------------------------------------
(* Properties of the archive *)

IsDefaultCall == last.mode = "a" /\ last.append = AppendNone /\ last.warn = TRUE

OnlySaveable(d) ==
    \A i \in 1..Len(d) : Lane(d[i].val) \in {"numpy", "pandas", "special"}

DistinctNames(d) ==
    \A i, j \in 1..Len(d) : i # j => Items(d)[i].key # Items(d)[j].key

Unsupported(d) ==
    {i \in 1..Len(d) : /\ d[i].val # None
                       /\ ~IsArray(d[i].val)
                       /\ ~IsTabular(d[i].val)
                       /\ ~IsSpecial(d[i].val)}

\* C1: round trip.  After to_hdf has returned on a fresh path, in any
\* mode, from a container whose items are all of array, tabular or special
\* kind and have distinct names, from_hdf of the path returns a container
\* that has every item name of the original, with an equal value.
C1_RoundTrip ==
    (/\ last.op = "to_hdf" /\ last.fresh /\ last.err = ""
     /\ OnlySaveable(obj) /\ DistinctNames(obj))
    => \E r \in {FromHdf(file, handles)} :
          /\ r.err = ""
          /\ \A i \in 1..Len(obj) :
                /\ HasAttr(r.result, Items(obj)[i].key)
                /\ GetAttr(r.result, Items(obj)[i].key) = Items(obj)[i].val

\* the nodes of the file that from_hdf reads as arrays: the nodes
\* store.walk_nodes() comes to that have a name
ArrayNodes(f) == SelectSeq(WalkNodes(f), LAMBDA e : HasName(e.val))

\* the name has a tabular record in the file, or is a sentinel attribute
\* that from_hdf reads
IsTabularName(f, n) == HasKey(f.nodes, n) /\ IsTabular(Get(f.nodes, n))

IsSpecialName(f, n) == HasKey(f.attrs, n) /\ n \notin forbidden

\* the value C2 gives such a name in the keyword map: the tabular record,
\* which is applied after the attributes, else the attribute
Favoured(f, n) ==
    IF IsTabularName(f, n) THEN Get(f.nodes, n) ELSE Get(f.attrs, n)

\* C2 as stated: in the keyword map from_hdf builds, the name of an array
\* node that is also the name of a tabular record or of a sentinel attribute
\* maps to the tabular or special value, and the array is not what the map
\* holds under that name.
C2_AsStated ==
    (last.op = "from_hdf" /\ last.err = "")
    => \A i \in 1..Len(ArrayNodes(file)) :
          LET n == ArrayNodes(file)[i].key
              v == ArrayNodes(file)[i].val
          IN  (IsTabularName(file, n) \/ IsSpecialName(file, n))
                 => /\ HasKey(last.kwargs, n)
                    /\ Get(last.kwargs, n) = Favoured(file, n)
                    /\ Get(last.kwargs, n) # v

\* what C3 says of a to_hdf call whose container holds exactly one item of
\* an unrecognized kind: one warning, no exception, the item in none of the
\* three lanes, and its name not a key of what from_hdf reads back
UnsupportedIsOmitted ==
    \A i \in Unsupported(obj) :
        LET n == Items(obj)[i].key
        IN  /\ last.warnings = 1
            /\ last.err = ""
            /\ n \notin (last.numpy \cup last.pandas \cup last.special)
            /\ \E r \in {FromHdf(file, handles)} :
                  r.err = "" /\ ~HasKey(r.kwargs, n) /\ ~HasKey(r.result, n)

\* the container holds nothing but the reserved fields and one item of an
\* unrecognized kind
HoldsOneUnsupported(d) ==
    /\ Cardinality(Unsupported(d)) = 1
    /\ \A i \in 1..Len(d) : i \in Unsupported(d) \/ d[i].key \in {K_dp, K_meta}

\* C3 as stated: to_hdf with default options on a container that holds one
\* item of an unrecognized kind warns once, raises nothing, writes the item
\* to no lane, and from_hdf of the path never has the item's name.
C3_AsStated ==
    (last.op = "to_hdf" /\ IsDefaultCall /\ HoldsOneUnsupported(obj))
    => UnsupportedIsOmitted

-----------------------------------------------------------------------------
(* Properties of the registry and of the introspection methods *)

\* the DataFrame items of the container, by position in vars(self)
Tables(d) == {i \in 1..Len(d) : IsFrame(d[i].val)}

TableName(d, i) == Items(d)[i].key

\* the index label of one table is a column label of the other
ExactMatch(a, b) ==
    \/ (a.idx # NoLabel /\ a.idx \in b.cols)
    \/ (b.idx # NoLabel /\ b.idx \in a.cols)

\* the index label of one table is a column label of the other with one
\* trailing digit removed
SuffixMatch(a, b) ==
    \/ (a.idx # NoLabel /\ \E c \in b.cols : c # a.idx /\ SuffixEq(c, a.idx))
    \/ (b.idx # NoLabel /\ \E c \in a.cols : c # b.idx /\ SuffixEq(c, b.idx))

\* how many edges of the list join the names p and q
EdgeCount(edges, p, q) ==
    Cardinality({k \in 1..Len(edges) : {edges[k][1], edges[k][2]} = {p, q}})

\* C4: _network returns the table names in sorted order, and an edge list
\* in which two different tables are joined exactly once if the index label
\* of one is a column label of the other and not at all otherwise; every
\* edge joins two different tables.
C4_NetworkExactMatch ==
    last.op = "network"
    => /\ {last.nodes[k] : k \in 1..Len(last.nodes)}
            = {TableName(obj, i) : i \in Tables(obj)}
       /\ \A k \in 1..(Len(last.nodes) - 1) :
             StrLess(last.nodes[k], last.nodes[k + 1])
       /\ \A i, j \in Tables(obj) :
             i # j => EdgeCount(last.edges, TableName(obj, i), TableName(obj, j))
                        = IF ExactMatch(obj[i].val, obj[j].val) THEN 1 ELSE 0
       /\ \A k \in 1..Len(last.edges) :
             /\ last.edges[k][1] # last.edges[k][2]
             /\ \E i, j \in Tables(obj) :
                   last.edges[k] = <<TableName(obj, i), TableName(obj, j)>>

\* _network has run on three tables, of which two pairs match (one of them
\* in both directions) and one pair does not
C4_Witness ==
    /\ last.op = "network"
    /\ Len(last.nodes) = 3
    /\ Len(last.edges) = 2
    /\ \E i, j \in Tables(obj) :
          /\ obj[i].val.idx \in obj[j].val.cols
          /\ obj[j].val.idx \in obj[i].val.cols

\* C5 as stated: two tables are joined by an edge when the index label of
\* one is a column label of the other with one trailing digit removed
\* (index "a", column "a1").
C5_AsStated ==
    last.op = "network"
    => \A i, j \in Tables(obj) :
          (i # j /\ SuffixMatch(obj[i].val, obj[j].val))
          => EdgeCount(last.edges, TableName(obj, i), TableName(obj, j)) = 1

\* C5, amended: a numeral-suffixed match alone makes no edge: two tables of
\* which neither's index label is exactly a column label of the other are
\* not joined, also when the index label of one is a column label of the
\* other with its trailing digit removed.
C5_SuffixMatchIsNoEdge ==
    last.op = "network"
    => \A i, j \in Tables(obj) :
          (/\ i # j
           /\ SuffixMatch(obj[i].val, obj[j].val)
           /\ ~ExactMatch(obj[i].val, obj[j].val))
          => EdgeCount(last.edges, TableName(obj, i), TableName(obj, j)) = 0

\* _network has run on a table with index "a" and column "a1" and a second
\* table with index "a"
C5_Witness ==
    /\ last.op = "network"
    /\ \E i, j \in Tables(obj) :
          /\ i # j
          /\ obj[i].val.idx = L_a /\ L_a1 \in obj[i].val.cols
          /\ obj[j].val.idx = L_a
          /\ ~ExactMatch(obj[i].val, obj[j].val)

\* the attributes other than the storage of the two reserved fields
DataKeys(d) == KeysOf(d) \ {K_dp, K_meta}

\* the name C6 says _items reports for a stored key
AliasOf(key) ==
    CASE key = K_dp   -> N_dp
      [] key = K_meta -> N_meta
      [] OTHER        -> key

Aliasing(d, items) ==
    /\ Len(items) = Len(d)
    /\ \A i \in 1..Len(d) :
          items[i].key = AliasOf(d[i].key) /\ items[i].val = d[i].val

\* the generator has been read to its end
ReadOut == last.op = "next" /\ it.st = "done"

\* C6 as stated: with N data items attached, _items() yields exactly N
\* pairs, none of them for default_prefix or meta, and reports a stored name
\* without its "_" exactly when the class has the property.
C6_AsStated ==
    ReadOut
    => /\ Len(it.got) = Cardinality(DataKeys(obj))
       /\ \A i \in 1..Len(it.got) : it.got[i].key \notin {N_dp, N_meta}
       /\ \A i \in 1..Len(it.got) :
             \E j \in 1..Len(obj) : it.got[i].key = AliasOf(obj[j].key)

\* the shapes C7 lets the row of an item carry: the item's shape attribute
\* if it has one, else what its size() returns, else its length, else the
\* placeholder; for an item whose size attribute is not callable, a value
\* of its own (its size, or the placeholder)
OwnShapes(v) ==
    IF HasShape(v) THEN {ShapeOfShape(v)}
    ELSE IF HasSize(v)
         THEN IF SizeCallable(v) THEN {ShapeOfSize(v)}
              ELSE {ShapeOfSize(v), ShapeNan}
         ELSE IF HasLen(v) THEN {ShapeOfLen(v)} ELSE {ShapeNan}

\* C7: info() completes for every registry, with one row per item that
\* carries the item's own shape, also for an item that has a non-callable
\* size attribute and no shape attribute.
C7_AsStated ==
    last.op = "info"
    => /\ last.err = ""
       /\ Len(last.rows) = Len(obj)
       /\ \A i \in 1..Len(obj) :
             \E k \in 1..Len(last.rows) :
                /\ last.rows[k].key = Items(obj)[i].key
                /\ last.rows[k].shape \in OwnShapes(obj[i].val)

\* C8: del container[name] for a name the registry reports leaves a
\* registry that does not report it, with the property-backed storage gone;
\* for a name that is not attached it changes nothing.
C8_AsStated ==
    [][last'.op = "delitem"
       => /\ (HasKey(Items(obj), last'.key)
               => (/\ ~HasKey(Items(obj'), last'.key)
                   /\ (last'.key \in Properties
                        => ~HasKey(obj', Storage(last'.key)))))
          /\ (~HasAttr(obj, last'.key) => obj' = obj)]_vars

\* every item to_hdf saves has its name in the file already
HoldsSameNames(d, f) ==
    \A i \in 1..Len(d) :
        LET n == Items(d)[i].key
        IN  /\ ((IsArray(d[i].val) \/ IsTabular(d[i].val)) => HasKey(f.nodes, n))
            /\ (IsSpecial(d[i].val) => HasKey(f.attrs, n))

\* C9: to_hdf with the default mode and no append, on a path that holds
\* records of the same names, returns without error; afterwards every such
\* record holds the value written, and the attributes of the sentinel under
\* other names are kept.
C9_AsStated ==
    [][(/\ last'.op = "to_hdf" /\ last'.mode = "a" /\ last'.append = AppendNone
        /\ file.exists /\ HoldsSameNames(obj, file))
       => /\ last'.err = ""
          /\ \A i \in 1..Len(obj) :
                LET n == Items(obj)[i].key
                    v == obj[i].val
                IN  /\ ((IsArray(v) \/ IsTabular(v))
                         => (HasKey(file'.nodes, n) /\ Get(file'.nodes, n) = v))
                    /\ (IsSpecial(v)
                         => (HasKey(file'.attrs, n) /\ Get(file'.attrs, n) = v))
          /\ \A k \in 1..Len(file.attrs) :
                (~HasKey(Items(obj), file.attrs[k].key))
                => (/\ HasKey(file'.attrs, file.attrs[k].key)
                    /\ Get(file'.attrs, file.attrs[k].key) = file.attrs[k].val)]_vars

\* the sum of getsizeof over the entries of vars(self)
RECURSIVE SizeOfAll(_)
SizeOfAll(d) == IF d = <<>> THEN 0 ELSE getsizeof(Head(d).val) + SizeOfAll(Tail(d))

\* C10: memory_usage() returns the sum of the per-item sizes of the rows of
\* info(), one row per item, for every set of attached items; 0 for none.
C10_AsStated ==
    last.op = "memory_usage"
    => /\ last.err = ""
       /\ last.mem = MiB(SizeOfAll(obj))
       /\ (obj = <<>> => last.mem.num = 0)

\* C11: len(container) is the number of attributes stored on the instance,
\* the storage of default_prefix and meta included, and that is the number
\* of pairs _items() yields.
C11_LenCountsAttributes ==
    last.op = "len" =>
        /\ last.n = Len(obj)
        /\ last.n = Len(Items(obj))

\* len() was taken of a container whose stored attributes are the two
\* bookkeeping fields and a data item, after a deletion or an assignment
C11_Witness ==
    /\ last.op = "len"
    /\ last.n = 3
    /\ {K_dp, K_meta} \subseteq KeysOf(obj)

-----------------------------------------------------------------------------
(* Properties of construction *)

\* the names of the data items stored on the container
DataNames(d) == KeysOf(d) \ {K_dp, K_meta}

\* the positional arguments are all stored, each under a name of its own
\* that starts with the prefix
PositionalsKept(d) ==
    \E f \in [1..Len(last.args) -> DataNames(d)] :
        /\ \A i, j \in 1..Len(last.args) : i # j => f[i] # f[j]
        /\ \A i \in 1..Len(last.args) :
              /\ Get(d, f[i]) = last.args[i]
              /\ \E h \in Hexes : f[i] = GetAttr(d, N_dp).data \o <<h>>

\* C12: a construction with P positional and K keyword arguments attaches
\* P + K distinct item names, and no positional item is overwritten by
\* another positional item or by a keyword item.
C12_AsStated ==
    last.op = "init" =>
        /\ Cardinality(DataNames(obj)) = Len(last.args) + last.n
        /\ PositionalsKept(obj)

-----------------------------------------------------------------------------
(* Properties of the two phases of to_hdf and of from_hdf *)

\* what C13 says of a value of append and a tabular item n
ClaimedAppend(append, n) ==
    CASE append.kind = "None" -> FALSE
      [] append.kind = "True" -> TRUE
      [] append.kind = "str"  -> append = AppendName(n)
      [] OTHER                -> n \in append.names

\* the tabular items of the container
TabularNames(d) == {Items(d)[i].key : i \in {j \in 1..Len(d) : IsTabular(d[j].val)}}

\* the rows of the record n of the file, none for a name without a record
RowsOf(f, n) ==
    IF HasKey(f.nodes, n) /\ IsTabular(Get(f.nodes, n))
    THEN Get(f.nodes, n).data
    ELSE <<>>

\* C13: a to_hdf call that returns leaves a tabular item n as pandas'
\* append leaves it (a record in table format, the item's rows after the
\* rows the record had in the file the call opened) if append is a list or
\* tuple that has n, or is True, or equals n, and as put leaves it (a record
\* in fixed format with the item's rows alone) in every other case, None
\* and the name of another item among them.
C13_AppendDecision ==
    [][(last'.op = "to_hdf" /\ last'.err = "")
       => \A n \in TabularNames(obj) :
             LET opened == IF last'.mode = "w" THEN EmptyFile ELSE file
             IN  IF ClaimedAppend(last'.append, n)
                 THEN /\ n \in file'.tables
                      /\ RowsOf(file', n) = RowsOf(opened, n) \o GetAttr(obj, n).data
                 ELSE /\ n \notin file'.tables
                      /\ RowsOf(file', n) = GetAttr(obj, n).data]_vars

\* to_hdf with append the name of one of two tabular items has added rows
\* to the record of that name and has put the other item, whose record it
\* replaced
C13_Witness ==
    /\ last.op = "to_hdf" /\ last.err = "" /\ last.mode = "a"
    /\ last.append = AppendName(N_x)
    /\ {N_x, N_values} \subseteq last.pandas
    /\ N_x \in file.tables /\ Len(RowsOf(file, N_x)) = 2
    /\ N_values \notin file.tables /\ Len(RowsOf(file, N_values)) = 1

\* the events of one store in a call
EventsOf(events, open, close) ==
    SelectSeq(events, LAMBDA e : e \in {open, close})

\* the number of handles a call has open after its first k events
OpenAfter(events, k) ==
    Cardinality({i \in 1..k : events[i] \in {E_open_tables, E_open_pandas}})
    - Cardinality({i \in 1..k : events[i] \in {E_close_tables, E_close_pandas}})

\* each store the call opened was opened once and then closed once, never
\* two of its handles open together, none of them open at the end
Lifecycle(events) ==
    /\ EventsOf(events, E_open_tables, E_close_tables)
          \in {<<>>, <<E_open_tables, E_close_tables>>}
    /\ EventsOf(events, E_open_pandas, E_close_pandas)
          \in {<<>>, <<E_open_pandas, E_close_pandas>>}
    /\ \A k \in 0..Len(events) : OpenAfter(events, k) \in {0, 1}
    /\ OpenAfter(events, Len(events)) = 0

\* C14 as stated: when a to_hdf or from_hdf call has returned normally, each
\* store handle that was opened has gone closed, open, closed once, at most
\* one was open at any moment, and no handle is open on the path.
C14_AsStated ==
    (last.op \in {"to_hdf", "from_hdf"} /\ last.err = "")
    => /\ last.events # <<>> /\ Lifecycle(last.events)
       /\ handles = <<>>

\* C14, amended: in every to_hdf or from_hdf call that returns normally,
\* each store handle the call opens goes closed, open, closed exactly once,
\* at most one of the call's handles is open at any moment, and none of
\* them is open when the call returns: the handles open on the path are
\* those that were open before the call, left by calls that raised.
C14_HandleLifecycle ==
    [][(last'.op \in {"to_hdf", "from_hdf"} /\ last'.err = "")
       => /\ last'.events # <<>> /\ Lifecycle(last'.events)
          /\ handles' = handles]_vars

\* a to_hdf call that opened both stores has returned while a handle that
\* an earlier call left open is still open
C14_Witness ==
    /\ last.op = "to_hdf" /\ last.err = ""
    /\ Len(last.events) = 4
    /\ handles # <<>>

\* how many times a call opened a store
Opens(events, open) == Cardinality({i \in 1..Len(events) : events[i] = open})

\* C15 as stated: a to_hdf call opens the array store once and the tabular
\* store once, whatever the container holds.
C15_AsStated ==
    last.op = "to_hdf"
    => /\ Opens(last.events, E_open_tables) = 1
       /\ Opens(last.events, E_open_pandas) = 1

\* the array items of the container whose name the file opened in the given
\* mode already has: create_carray raises for them
ArrayClash(d, f, mode) ==
    {n \in {Items(d)[i].key : i \in {j \in 1..Len(d) : IsArray(d[j].val)}} :
        mode # "w" /\ f.exists /\ HasKey(f.nodes, n)}

\* the tabular records of a file, the sentinel among them
TabularRecords(f) == {e \in {f.nodes[i] : i \in 1..Len(f.nodes)} : IsTabular(e.val)}

\* C16: when writing an array record raises (the file has a node of the
\* item's name), the exception reaches the caller, the array store handle
\* the call opened is left open on the path, the tabular store is not
\* opened in that call, and the call writes no sentinel, special or tabular
\* record.
C16_ArrayPhaseFailure ==
    [][last'.op = "to_hdf"
       => /\ (ArrayClash(obj, file, last'.mode) # {} => last'.err = "NodeError")
          /\ (last'.err = "NodeError"
                => /\ ArrayClash(obj, file, last'.mode) # {}
                   /\ handles' = Append(handles, Handle(S_tables, last'.mode))
                   /\ last'.events = <<E_open_tables>>
                   /\ file'.attrs = file.attrs
                   /\ file'.pads = file.pads
                   /\ TabularRecords(file') = TabularRecords(file))]_vars

\* create_carray has raised in a call on a container that also holds a
\* special or a tabular item, and the handle of the array store is the
\* last of those open on the path
C16_Witness ==
    /\ last.op = "to_hdf" /\ last.err = "NodeError"
    /\ handles # <<>>
    /\ handles[Len(handles)] = Handle(S_tables, last.mode)
    /\ last.numpy # {}
    /\ last.special \cup last.pandas # {}

\* the names that are both an attribute of the sentinel and a tabular record
AttrAndRecord(f) ==
    {n \in KeysOf(f.attrs) : HasKey(f.nodes, n) /\ IsTabular(Get(f.nodes, n))}

\* C17: in from_hdf, a name that is both an attribute of the sentinel and a
\* tabular record has the record's value in the keyword map, and an
\* attribute of the sentinel whose name is forbidden is not put in the map.
C17_AsStated ==
    (last.op = "from_hdf" /\ last.err = "")
    => /\ \A n \in AttrAndRecord(file) :
             Get(last.kwargs, n) = Get(file.nodes, n)
       /\ \A n \in forbidden \cap KeysOf(file.attrs) :
             ~HasKey(file.nodes, n) => ~HasKey(last.kwargs, n)

\* C19: when a to_hdf call returns, in any mode, every array item the call
\* wrote in its array phase is in the archive with its value.
C19_AsStated ==
    (last.op = "to_hdf" /\ last.err = "")
    => \A n \in last.numpy :
          HasKey(file.nodes, n) /\ Get(file.nodes, n) = GetAttr(obj, n)

\* the archive is what to_hdf with default options writes of the container
\* to a fresh path
WrittenFresh(d, f) ==
    \E junk \in Pads :
        \E r \in {ToHdf(d, NoFile, <<>>, {}, "a", AppendNone, 95, TRUE, junk)} :
            r.err = "" /\ r.file = f

\* C20: every item name of the container from_hdf returns is a registry
\* name of the container that was written to the fresh path; the sentinel
\* record does not come back as an item.
C20_AsStated ==
    (last.op = "from_hdf" /\ last.err = "" /\ WrittenFresh(obj, file))
    => /\ KeysOf(Items(last.result)) \subseteq KeysOf(Items(obj))
       /\ ~HasKey(last.result, spec_name)

-----------------------------------------------------------------------------
(* Properties of the warnings of to_hdf and of equality *)

\* the registry items a to_hdf call wrote to none of its three lanes
Omitted(d) ==
    {i \in 1..Len(d) :
        Items(d)[i].key \notin (last.numpy \cup last.pandas \cup last.special)}

\* C21 as stated: with warn at its default, the warnings of a to_hdf call
\* are as many as the items the call writes to no lane, the items that are
\* None among them.
C21_AsStated ==
    (last.op = "to_hdf" /\ last.warn = TRUE)
    => last.warnings = Cardinality(Omitted(obj))

\* the texts of the warnings for the items of an unrecognized kind
UnsupportedTexts(d) == {Text(Items(d)[i].key, d[i].val) : i \in Unsupported(d)}

\* what the file has under a name: the node and the sentinel attribute
Under(f, n) ==
    <<IF HasKey(f.nodes, n) THEN <<Get(f.nodes, n)>> ELSE <<>>,
      IF HasKey(f.attrs, n) THEN <<Get(f.attrs, n)>> ELSE <<>>>>

\* C21, amended: with warn at its default, a to_hdf call warns once for
\* every item that is not None and of none of the three kinds, and for no
\* other item; these items and the items that are None are the ones it
\* puts in no lane, and it writes nothing under their names.  Of the
\* warnings of a call the interpreter shows those whose text (the item's
\* name and type) it has not shown before.
C21_WarningPerOmittedValue ==
    [][(last'.op = "to_hdf" /\ last'.warn = TRUE)
       => /\ last'.warnings = Cardinality(Unsupported(obj))
          /\ {last'.shown[k] : k \in 1..Len(last'.shown)}
                = UnsupportedTexts(obj) \ shown
          /\ Len(last'.shown) = Cardinality(UnsupportedTexts(obj) \ shown)
          /\ shown' = shown \cup UnsupportedTexts(obj)
          /\ \A i \in 1..Len(obj) :
                LET n == Items(obj)[i].key
                    lanes == last'.numpy \cup last'.pandas \cup last'.special
                IN  IF obj[i].val = None \/ i \in Unsupported(obj)
                    THEN /\ n \notin lanes
                         /\ Under(file', n) \in {Under(file, n), Under(EmptyFile, n)}
                    ELSE n \in lanes]_vars

\* to_hdf with warn at its default has left out an item of an unrecognized
\* kind, with one warning that was not shown because an earlier call had
\* shown it, and a meta that is None, with none
C21_Witness ==
    /\ last.op = "to_hdf" /\ last.warn = TRUE
    /\ last.warnings = 1 /\ last.shown = <<>>
    /\ Cardinality(Omitted(obj)) = 2
    /\ \E i \in Omitted(obj) : obj[i].key = K_meta /\ obj[i].val = None

\* the two containers have the same item names with equal values
SameContents(a, b) ==
    /\ KeysOf(Items(a)) = KeysOf(Items(b))
    /\ \A i \in 1..Len(a) : \A j \in 1..Len(b) :
          Items(a)[i].key = Items(b)[j].key => a[i].val = b[j].val

\* C22: a == b is True only if a and b have the same item names and every
\* name has equal values in both; containers with different name sets do
\* not compare equal.
C22_AsStated ==
    (last.op = "eq" /\ last.eq) => SameContents(obj, last.result)

=============================================================================
